---- MODULE Spec2Model ----
(***************************************************************************)
(* Model of hexmaps.earth.grid: Point / Cell / Neighbor / GridCell / Grid   *)
(* and the walkers of Cell, of get_features and build_union_query of       *)
(* hexmaps.earth.overpass.api, of RecursedRelation.to_dict_tree of         *)
(* hexmaps.earth.overpass.relation and of _get_geojson_items_bounds of     *)
(* hexmaps.earth.map.                                                      *)
(*                                                                         *)
(* The hexagonal spatial index (h3) and the geodesic solver (pyproj) are   *)
(* libraries the code calls.  They are modelled by a lattice of cells      *)
(* around one origin cell, cut into nsec sectors:                          *)
(*   nsec = 6  a flat, regular hexagonal lattice (no pentagon);            *)
(*   nsec = 5  the lattice around a pentagon: one 60 degree sector is      *)
(*             removed and the two cut edges are glued, so the origin has  *)
(*             five neighbors and every other cell has six.                *)
(* A cell index is the triple <<k, s, t>>: ring k around the origin,       *)
(* sector s, offset t in 0..k-1 along the ring inside the sector.          *)
(* Bearings are whole degrees.  The six neighbors of a hexagon lie 60      *)
(* degrees apart; the compass frame turns by 360 / nsec from one sector to *)
(* the next, so that it closes after one turn around the origin.  For      *)
(* nsec = 5 the angles around the pentagon add up to 300 degrees only:     *)
(* somewhere on the way around it the position that get_neighbor_map gives *)
(* to one lattice direction changes by one between two adjacent cells.     *)
(***************************************************************************)
EXTENDS Integers, Sequences, FiniteSets, TLC

\* ------------------------------------------------------------------ bounds
MaxWidth == 5
MaxHeight == 5
MaxSeedRing == 2
MaxSteps == 3
\* the walkers created one after the other on one start cell
MaxWalkers == 2
\* the Grids that are constructed, expanded twice and read: dimensions up to
\* MaxDim (and down to -1), seeds within MaxLifeRing rings of the origin
MaxDim == 3
MaxLifeRing == 1
\* get_features: lists of up to MaxElements elements, relations of up to
\* MaxPoints points
MaxElements == 2
MaxPoints == 2
\* the GeoJson items of one map
MaxItems == 2
\* the characters of a union block
MaxLen == 3
\* the relations of one relation tree
MaxNodes == 5

\* ------------------------------------------------------------- the world
VARIABLES nsec

Origin == <<0, 0, 0>>

\* bearing, in degrees, of lattice direction 0 in sector 0
Theta0 == 30

Abs(x) == IF x < 0 THEN -x ELSE x

Max2(a, b) == IF a >= b THEN a ELSE b

\* the six lattice directions in axial coordinates, in order of increasing
\* bearing; Dir(d) + Dir(d + 2) = Dir(d + 1)
Dirs == << <<1, 0>>, <<0, 1>>, <<-1, 1>>, <<-1, 0>>, <<0, -1>>, <<1, -1>> >>

Dir(d) == Dirs[(d % 6) + 1]

HexNorm(p) == Max2(Max2(Abs(p[1]), Abs(p[2])), Abs(p[1] + p[2]))

\* axial position, in a flat chart, of offset t of ring k in chart sector c
ChartPos(k, c, t) ==
    << k * Dir(c)[1] + t * Dir(c + 2)[1], k * Dir(c)[2] + t * Dir(c + 2)[2] >>

ToPolar(p) ==
    IF p = <<0, 0>> THEN Origin
    ELSE LET k == HexNorm(p)
         IN  CHOOSE x \in {<<k, c, t>> : c \in 0..5, t \in 0..(k - 1)} :
                 ChartPos(x[1], x[2], x[3]) = p

CellsOf(ns, maxring) ==
    {Origin} \cup
    {x \in {<<k, s, t>> : k \in 1..maxring, s \in 0..5, t \in 0..maxring} :
        x[2] < ns /\ x[3] < x[1]}

Worlds == {5, 6}

\* the cells whose rings, bearings and neighbor maps are tabulated; a cell
\* outside the tables is computed directly
WorldRadius == MaxSeedRing + MaxWidth + MaxHeight

\* the cell one step in chart direction d from cell c (c laid in chart sector 1)
StepOf(ns, c, d) ==
    LET p == ChartPos(c[1], 1, c[3])
        x == ToPolar(<<p[1] + Dir(d)[1], p[2] + Dir(d)[2]>>)
    IN  IF x[1] = 0 THEN Origin
        ELSE <<x[1], (c[2] + x[2] - 1 + ns) % ns, x[3]>>

StepTab ==
    [ns \in Worlds |->
        [c \in CellsOf(ns, WorldRadius) \ {Origin} |-> [d \in 0..5 |-> StepOf(ns, c, d)]]]

Step(ns, c, d) ==
    IF c \in DOMAIN StepTab[ns] THEN StepTab[ns][c][d] ELSE StepOf(ns, c, d)

\* memview_int.hex_ring(index, 1) in world ns
HexRingOf(ns, c) ==
    IF c = Origin THEN {<<1, s, 0>> : s \in 0..(ns - 1)}
    ELSE {Step(ns, c, d) : d \in 0..5}

\* the compass bearing in 0..359 from cell c to its ring neighbor n: each
\* sector keeps one frame, turned by 360 / ns from one sector to the next
TrueBearing(ns, c, n) ==
    IF c = Origin THEN (Theta0 + (360 \div ns) * n[2]) % 360
    ELSE LET d == CHOOSE e \in 0..5 : Step(ns, c, e) = n
         IN  (Theta0 + 60 * d + (360 \div ns) * c[2] + 300) % 360

\* WGS84_GEOD.inv(...)[0]: the forward azimuth, in (-180, 180]
GeodInv(ns, c, n) ==
    LET b == TrueBearing(ns, c, n) IN IF b > 180 THEN b - 360 ELSE b

\* ------------------------------------------------------------------- Cell
NoCell == <<-1, -1, -1>>

Bearings == {0, 200}

\* memview_int.hex_ring(self.index, 1)
hex_ring(c) == HexRingOf(nsec, c)

\* Cell.is_pentagon
is_pentagon(c) == nsec = 5 /\ c = Origin

\* Cell.get_bearing in world ns: the solver's forward azimuth, returned as it is
BearingOf(ns, c, n) == GeodInv(ns, c, n)

\* Cell.get_bearing
get_bearing(c, n) == BearingOf(nsec, c, n)

\* the angle left unnormalized
Angle_NoMod(b, brg) == b - brg

\* the generator of line 81: (self.get_bearing(n) - bearing) % 360.0
Angle(b, brg) == (b - brg) % 360

\* sorted(angle_it, key=lambda x: x[0]) over the <<angle, cell>> pairs of S
RECURSIVE SortedByAngle(_)
SortedByAngle(S) ==
    IF S = {} THEN <<>>
    ELSE LET x == CHOOSE y \in S : \A z \in S : y[1] <= z[1]
         IN  <<x>> \o SortedByAngle(S \ {x})

\* Cell.get_neighbor_map in world ns: position -> Neighbor(cell, position, angle)
NeighborMapOf(ns, c, brg) ==
    LET srt == SortedByAngle({<<Angle(BearingOf(ns, c, n), brg), n>> : n \in HexRingOf(ns, c)})
    IN  [i \in 0..(Len(srt) - 1) |->
            [cell |-> srt[i + 1][2], position |-> i, angle |-> srt[i + 1][1]]]

NeighborMapTab ==
    [ns \in Worlds |->
        [brg \in Bearings |->
            [c \in CellsOf(ns, WorldRadius) |-> NeighborMapOf(ns, c, brg)]]]

\* Cell.get_neighbor_map
get_neighbor_map(c, brg) ==
    IF brg \in Bearings /\ c \in DOMAIN NeighborMapTab[nsec][brg]
    THEN NeighborMapTab[nsec][brg][c]
    ELSE NeighborMapOf(nsec, c, brg)

\* ------------------------------------------------------------------- Grid
\* Grid fields, the locals of expand_from_cell and the position in it (pc);
\* skipped records the cells whose translated coordinates were out of bounds
VARIABLES height, width, bearing, cell_map, queue, visited, skipped, init_cell, pc

\* the state of one walker (the generator of Cell.get_walker): its selector,
\* bearing and remaining iterations (-1 for None), the local cell, the number
\* of Neighbors yielded, and the last call of the selector: the cell and
\* neighbor map it was given and the Neighbor it returned
VARIABLES w_sel, w_bearing, w_it, w_cell, w_n, w_from, w_map, w_out, w_pc

\* the iterations argument the walker was created with (-1 for None) and the
\* number of calls of the selector
VARIABLES w_iterations, w_calls

\* the Cell get_walker was called on (self) and the number of walkers created
\* on it so far
VARIABLES w_start, w_gen

\* the arguments of the last call of Grid(...), the seed of the first call of
\* expand_from_cell once it has been called a second time (NoCell before), and
\* the last read of the Grid with its outcome
VARIABLES ctor_args, first_seed, lk

\* Point(longitude, latitude) and the outcome of its construction
VARIABLES p_lon, p_lat, p_out

\* get_features(elements, split_relations) and what it returned
VARIABLES f_elements, f_split, f_out

\* _get_geojson_items_bounds: the items iterated so far (what get_bounds did
\* for each), the four locals, the value returned and the position in the code
VARIABLES geojson_items, lat_min, lon_min, lat_max, lon_max, bounds, b_pc

\* build_union_query: the union_block argument, a sequence of characters, and
\* the outcome: the ValueError or the parts of the query that is returned
VARIABLES union_block, query

\* RecursedRelation.to_dict_tree: the relations of the tree (the sub-relations
\* of each, in order; relation 1 is self), the reverse argument, the locals
\* queue, current_index and tree (an OrderedDict: its items in order), and
\* the position in the code
VARIABLES t_relations, t_reverse, t_queue, current_index, tree, t_pc

gridvars == <<height, width, bearing, cell_map, queue, visited, skipped, init_cell, pc>>

walkvars == <<w_sel, w_bearing, w_it, w_cell, w_n, w_from, w_map, w_out, w_pc,
              w_iterations, w_calls, w_start, w_gen>>

lifevars == <<ctor_args, first_seed, lk>>

pointvars == <<p_lon, p_lat, p_out>>

featvars == <<f_elements, f_split, f_out>>

boundsvars == <<geojson_items, lat_min, lon_min, lat_max, lon_max, bounds, b_pc>>

queryvars == <<union_block, query>>

treevars == <<t_relations, t_reverse, t_queue, current_index, tree, t_pc>>

morevars == <<boundsvars, queryvars, treevars>>

othervars == <<pointvars, featvars, morevars>>

vars == <<nsec, gridvars, walkvars, lifevars, othervars>>

SHIFT_NEIGHBOR_J == <<1, 0, -1, -1, 0, 1>>

SHIFT_NEIGHBOR_I_EVEN == <<0, 1, 0, -1, -1, -1>>

\* the last entry of the odd-row table entered as -1
SHIFT_NEIGHBOR_I_ODD_LastEntry == <<1, 1, 1, 0, -1, -1>>

SHIFT_NEIGHBOR_I_ODD == <<1, 1, 1, 0, -1, 0>>

EmptyMap == [k \in {} |-> k]

\* the coordinates of the record entered as (j, i)
GridCell_Swapped(c, k, co) == [cell |-> c, key |-> k, coordinates |-> <<co[2], co[1]>>]

\* the GridCell record, lines 162-166
GridCell(c, k, co) == [cell |-> c, key |-> k, coordinates |-> co]

\* the row stride taken from the height
coordinates_to_key_height(co) == co[1] + height * co[2]

\* Grid.coordinates_to_key
coordinates_to_key(co) == co[1] + width * co[2]

\* Grid.key_to_coordinates
key_to_coordinates(key) == <<key % width, key \div width>>

\* the seed placed at the corner
InitCellCoordinates_Zero == <<0, 0>>

\* line 224: init_cell_coordinates
InitCellCoordinates == <<width \div 2, height \div 2>>

\* the horizontal shift of the even rows used in every row
NeighborCoordinates_NoParity(co, position) ==
    << co[1] + SHIFT_NEIGHBOR_I_EVEN[position + 1],
       co[2] + SHIFT_NEIGHBOR_J[position + 1] >>

\* the vertical shift of position 5 entered as -1
NeighborCoordinates_WrongEntry(co, position) ==
    << co[1] + (IF co[2] % 2 = 0
                THEN SHIFT_NEIGHBOR_I_EVEN[position + 1]
                ELSE SHIFT_NEIGHBOR_I_ODD[position + 1]),
       co[2] + (IF position = 5 THEN -1 ELSE SHIFT_NEIGHBOR_J[position + 1]) >>

\* lines 236-242: the coordinates given to the neighbor at a position
NeighborCoordinates(co, position) ==
    << co[1] + (IF co[2] % 2 = 0
                THEN SHIFT_NEIGHBOR_I_EVEN[position + 1]
                ELSE SHIFT_NEIGHBOR_I_ODD[position + 1]),
       co[2] + SHIFT_NEIGHBOR_J[position + 1] >>

\* the upper bounds taken inclusive
InBounds_Inclusive(co) == 0 <= co[1] /\ co[1] <= width /\ 0 <= co[2] /\ co[2] <= height

\* line 243
InBounds(co) == 0 <= co[1] /\ co[1] < width /\ 0 <= co[2] /\ co[2] < height

\* the pentagon test left out
PentagonCheck_Never(cell) == FALSE

\* line 229
PentagonCheck(cell) == is_pentagon(cell)

\* Cell.__eq__, lines 45-48: a Cell is modelled by its index, the point
\* being a function of the index (line 42)
Cell_eq(self, other) == self = other

\* Cell.__hash__, lines 50-51
Cell_hash(self) == self

\* the comparison of all three fields that the dataclass would generate
Neighbor_eq_Fields(self, other) == self = other

\* Neighbor.__eq__, lines 143-146
Neighbor_eq(self, other) == Cell_eq(self.cell, other.cell)

\* Neighbor.__hash__, lines 148-149
Neighbor_hash(self) == Cell_hash(self.cell)

\* no Cell found in the visited set
InVisited_Never(n, v) == FALSE

\* n in visited, line 234: membership in a set of Cells goes by hash and ==
InVisited(n, v) == \E y \in v : Cell_hash(y) = Cell_hash(n) /\ Cell_eq(y, n)

\* the entry put at the right end, where the next pop takes it
AppendLeft_Right(q, e) == q \o <<e>>

\* line 244: queue.appendleft(...)
AppendLeft(q, e) == <<e>> \o q

\* the entry taken from the left end
PopIndex_Left(q) == 1

\* line 228: queue.pop() takes the entry at the right end
PopIndex(q) == Len(q)

\* lines 234-244 for the neighbor n, to which the shift table gives the
\* coordinates nco; st = [v, q, s] are the visited set, the deque (left end
\* first) and the cells skipped as out of bounds (t is st, evaluated once)
VisitNeighbor(n, nco, st) ==
    CHOOSE r \in {IF InVisited(n, t.v) THEN t
                  ELSE [v |-> t.v \cup {n},
                        q |-> IF InBounds(nco) THEN AppendLeft(t.q, <<nco, n>>) ELSE t.q,
                        s |-> IF InBounds(nco) THEN t.s ELSE t.s \cup {n}] : t \in {st}} : TRUE

\* the for loop of lines 233-244 from position p on
RECURSIVE ScanNeighbors(_, _, _, _)
ScanNeighbors(nmap, p, co, st) ==
    IF p \notin DOMAIN nmap THEN st
    ELSE ScanNeighbors(nmap, p + 1, co,
                       VisitNeighbor(nmap[p].cell, NeighborCoordinates(co, p), st))

\* the mapping kept by expand_from_cell
ClearedMap_Keep(m) == m

\* line 223: self._cell_map.clear()
ClearedMap(m) == EmptyMap

\* one iteration of the while loop, lines 227-244, on the mapping m, the
\* deque q, the visited set v and the skipped cells s
ExpandIteration(m, q, v, s) ==
    LET x == PopIndex(q)
        coordinates == q[x][1]
        cell == q[x][2]
        rest == [k \in 1..(Len(q) - 1) |-> IF k < x THEN q[k] ELSE q[k + 1]]
        key == coordinates_to_key(coordinates)
    IN  IF PentagonCheck(cell)
        THEN [pc |-> "raised", m |-> m, q |-> rest, v |-> v, s |-> s]
        ELSE CHOOSE r \in
                 {[pc |-> "expanding",
                   m |-> [k \in DOMAIN m \cup {key} |->
                             IF k = key THEN GridCell(cell, key, coordinates) ELSE m[k]],
                   q |-> st.q, v |-> st.v, s |-> st.s] :
                     st \in {ScanNeighbors(get_neighbor_map(cell, bearing), 0, coordinates,
                                           [v |-> v, q |-> rest, s |-> s])}} : TRUE

\* the while loop of lines 227-245 run until it returns or raises
RECURSIVE ExpandLoop(_)
ExpandLoop(r) ==
    IF r.pc = "raised" THEN r
    ELSE IF Len(r.q) = 0 THEN [r EXCEPT !.pc = "done"]
    ELSE ExpandLoop(ExpandIteration(r.m, r.q, r.v, r.s))

\* Grid(height, width, bearing).expand_from_cell(seed) on a new Grid
FreshExpand(seed) ==
    ExpandLoop([pc |-> "expanding", m |-> EmptyMap,
                q |-> <<<<InitCellCoordinates, seed>>>>, v |-> {seed}, s |-> {}])

NoGridCell == GridCell(NoCell, -1, <<-1, -1>>)

\* no read of the Grid
NoLookup ==
    [op |-> "none", key |-> -1, coordinates |-> <<-1, -1>>, found |-> FALSE,
     value |-> NoGridCell, keys |-> {}, len |-> 0]

\* no walker
WalkerIdle ==
    /\ w_sel = "none"
    /\ w_bearing = 0
    /\ w_it = 0
    /\ w_cell = NoCell
    /\ w_n = 0
    /\ w_from = NoCell
    /\ w_map = EmptyMap
    /\ w_out = EmptyMap
    /\ w_pc = "none"
    /\ w_iterations = 0
    /\ w_calls = 0
    /\ w_start = NoCell
    /\ w_gen = 0

\* no Point
PointIdle ==
    /\ p_lon = 0
    /\ p_lat = 0
    /\ p_out = "none"

NoFeatures == [returned |-> FALSE, features |-> <<<<>>, <<>>, <<>>>>]

\* no call of get_features
FeatIdle ==
    /\ f_elements = <<<<>>, <<>>, <<>>>>
    /\ f_split = FALSE
    /\ f_out = NoFeatures

\* None: a missing coordinate or bound, a value that is no number of degrees
None == 1000

\* the value of get_bounds of an item without coordinates
NoBounds == <<<<None, None>>, <<None, None>>>>

\* no call of _get_geojson_items_bounds
BoundsIdle ==
    /\ geojson_items = <<>>
    /\ lat_min = None
    /\ lon_min = None
    /\ lat_max = None
    /\ lon_max = None
    /\ bounds = NoBounds
    /\ b_pc = "none"

NoQuery == [pc |-> "none", parts |-> <<>>]

\* no call of build_union_query
QueryIdle ==
    /\ union_block = <<>>
    /\ query = NoQuery

\* no call of to_dict_tree
TreeIdle ==
    /\ t_relations = <<>>
    /\ t_reverse = FALSE
    /\ t_queue = <<>>
    /\ current_index = 0
    /\ tree = <<>>
    /\ t_pc = "none"

MoreIdle == BoundsIdle /\ QueryIdle /\ TreeIdle

OtherIdle == PointIdle /\ FeatIdle /\ MoreIdle

\* Grid.__init__ with valid dimensions
Init ==
    /\ nsec \in Worlds
    /\ height \in 1..MaxHeight
    /\ width \in 1..MaxWidth
    /\ bearing \in Bearings
    /\ cell_map = EmptyMap
    /\ queue = <<>>
    /\ visited = {}
    /\ skipped = {}
    /\ init_cell = NoCell
    /\ pc = "idle"
    /\ ctor_args = [height |-> height, width |-> width, bearing |-> bearing]
    /\ first_seed = NoCell
    /\ lk = NoLookup
    /\ WalkerIdle
    /\ OtherIdle

\* expand_from_cell, lines 223-226
ExpandBegin(seed) ==
    /\ cell_map' = ClearedMap(cell_map)
    /\ queue' = <<<<InitCellCoordinates, seed>>>>
    /\ visited' = {seed}
    /\ skipped' = {}
    /\ init_cell' = seed
    /\ pc' = "expanding"
    /\ lk' = NoLookup
    /\ UNCHANGED <<nsec, height, width, bearing, ctor_args, walkvars, othervars>>

\* the first call of expand_from_cell on the Grid
ExpandStart(seed) ==
    /\ pc = "idle"
    /\ ExpandBegin(seed)
    /\ UNCHANGED first_seed

\* one iteration of the while loop, lines 227-244
ExpandStep ==
    /\ pc = "expanding"
    /\ Len(queue) > 0
    /\ \E r \in {ExpandIteration(cell_map, queue, visited, skipped)} :
           /\ cell_map' = r.m
           /\ queue' = r.q
           /\ visited' = r.v
           /\ skipped' = r.s
           /\ pc' = r.pc
    /\ UNCHANGED <<nsec, height, width, bearing, init_cell, walkvars, lifevars, othervars>>

\* the while condition fails: return self, line 245
ExpandReturn ==
    /\ pc = "expanding"
    /\ Len(queue) = 0
    /\ pc' = "done"
    /\ UNCHANGED <<nsec, height, width, bearing, cell_map, queue, visited, skipped,
                   init_cell, walkvars, lifevars, othervars>>

Next ==
    \/ \E seed \in CellsOf(nsec, MaxSeedRing) : ExpandStart(seed)
    \/ ExpandStep
    \/ ExpandReturn

Spec == Init /\ [][Next]_vars

\* a call of expand_from_cell that is running goes on running: the while loop
\* takes its next pass, or returns
SpecFair == Spec /\ WF_vars(ExpandStep) /\ WF_vars(ExpandReturn)

\* ---------------------------------------------------------------- walkers
\* no Grid
GridIdle ==
    /\ height = 1
    /\ width = 1
    /\ bearing = 0
    /\ cell_map = EmptyMap
    /\ queue = <<>>
    /\ visited = {}
    /\ skipped = {}
    /\ init_cell = NoCell
    /\ pc = "none"
    /\ ctor_args = [height |-> 1, width |-> 1, bearing |-> 0]
    /\ first_seed = NoCell
    /\ lk = NoLookup

\* neighbor_map[position]: the Neighbor, or a KeyError for that position
MapGet(neighbor_map, position) ==
    IF position \in DOMAIN neighbor_map THEN neighbor_map[position]
    ELSE [cell |-> NoCell, position |-> position, angle |-> -1]

\* six positions whatever the cell
RandRange_Six(cell) == 6

\* line 103: the argument of random.randrange
RandRange(cell) == IF is_pentagon(cell) THEN 5 ELSE 6

\* the selector of get_random_walker, lines 102-104: the Neighbors it can return
RandomSelector(cell, neighbor_map) ==
    {MapGet(neighbor_map, position) : position \in 0..(RandRange(cell) - 1)}

\* the selector returning the second entry of the map
StraightSelector_Second(cell, neighbor_map) == {MapGet(neighbor_map, 1)}

\* the selector of get_straight_walker, lines 113-114
StraightSelector(cell, neighbor_map) == {MapGet(neighbor_map, 0)}

Selector(sel, cell, neighbor_map) ==
    IF sel = "random" THEN RandomSelector(cell, neighbor_map)
    ELSE StraightSelector(cell, neighbor_map)

\* the local cell left where it is
Advance_Stay(cell, neighbor) == cell

\* line 95: cell = neighbor.cell
Advance(cell, neighbor) == neighbor.cell

\* the range left as it is
Remaining_Same(it) == it

\* line 91: what is left of range(iterations), or of count(), after one pass
Remaining(it) == IF it = -1 THEN -1 ELSE it - 1

\* get_random_walker(iterations) / get_straight_walker(bearing, iterations) on
\* a start cell: the generator is created, nothing of its body has run
InitWalk ==
    /\ nsec \in Worlds
    /\ GridIdle
    /\ OtherIdle
    /\ w_sel \in {"random", "straight"}
    /\ w_bearing \in (IF w_sel = "random" THEN {0} ELSE Bearings)
    /\ w_iterations \in -1..MaxSteps
    /\ w_it = w_iterations
    /\ w_start \in CellsOf(nsec, MaxSeedRing)
    /\ w_cell = w_start
    /\ w_gen = 1
    /\ w_n = 0
    /\ w_calls = 0
    /\ w_from = NoCell
    /\ w_map = EmptyMap
    /\ w_out = EmptyMap
    /\ w_pc = "created"

\* next() on the generator: one pass of the for loop, lines 93-96; an
\* unbounded walker (count()) is followed for MaxSteps steps
WalkNext ==
    /\ w_pc \in {"created", "yielded"}
    /\ w_it # 0
    /\ w_n < MaxSteps
    /\ LET nmap == get_neighbor_map(w_cell, w_bearing)
       IN  \E neighbor \in Selector(w_sel, w_cell, nmap) :
               /\ w_from' = w_cell
               /\ w_map' = nmap
               /\ w_out' = neighbor
               /\ w_calls' = w_calls + 1
               /\ IF neighbor.cell = NoCell
                  THEN /\ w_pc' = "raised"
                       /\ UNCHANGED <<w_cell, w_it, w_n>>
                  ELSE /\ w_cell' = Advance(w_cell, neighbor)
                       /\ w_it' = Remaining(w_it)
                       /\ w_n' = w_n + 1
                       /\ w_pc' = "yielded"
    /\ UNCHANGED <<nsec, gridvars, lifevars, othervars, w_sel, w_bearing, w_iterations,
                   w_start, w_gen>>

\* next() when the range is used up: StopIteration
WalkStop ==
    /\ w_pc \in {"created", "yielded"}
    /\ w_it = 0
    /\ w_pc' = "exhausted"
    /\ UNCHANGED <<nsec, gridvars, lifevars, othervars, w_sel, w_bearing, w_it, w_cell,
                   w_n, w_from, w_map, w_out, w_iterations, w_calls,
                   w_start, w_gen>>

\* the walker method is called again on the same Cell, with the same
\* arguments, after the walker before it has yielded: a new generator whose
\* local cell is self (line 92) and whose range is whole; the older generator
\* is followed no further
WalkAgain ==
    /\ w_pc \in {"yielded", "exhausted"}
    /\ w_gen < MaxWalkers
    /\ w_gen' = w_gen + 1
    /\ w_cell' = w_start
    /\ w_it' = w_iterations
    /\ w_n' = 0
    /\ w_calls' = 0
    /\ w_from' = NoCell
    /\ w_map' = EmptyMap
    /\ w_out' = EmptyMap
    /\ w_pc' = "created"
    /\ UNCHANGED <<nsec, gridvars, lifevars, othervars, w_sel, w_bearing, w_iterations,
                   w_start>>

NextWalk ==
    \/ WalkNext
    \/ WalkStop
    \/ WalkAgain

SpecWalk == InitWalk /\ [][NextWalk]_vars

\* ------------------------------------- Grid: construction, second call, reads
\* one positive dimension taken as enough
DimensionsValid_Either(h, w) == h > 0 \/ w > 0

\* line 185: the test of Grid.__init__
DimensionsValid(h, w) == h > 0 /\ w > 0

\* Grid(...) has not been called: there is no Grid
InitLife ==
    /\ nsec \in Worlds
    /\ height = 0
    /\ width = 0
    /\ bearing = 0
    /\ cell_map = EmptyMap
    /\ queue = <<>>
    /\ visited = {}
    /\ skipped = {}
    /\ init_cell = NoCell
    /\ pc = "none"
    /\ ctor_args = [height |-> 0, width |-> 0, bearing |-> 0]
    /\ first_seed = NoCell
    /\ lk = NoLookup
    /\ WalkerIdle
    /\ OtherIdle

\* Grid(h, w, b), lines 184-190: on invalid dimensions it raises before any
\* field is set
GridInit(h, w, b) ==
    /\ pc = "none"
    /\ ctor_args' = [height |-> h, width |-> w, bearing |-> b]
    /\ IF DimensionsValid(h, w)
       THEN /\ height' = h
            /\ width' = w
            /\ bearing' = b
            /\ cell_map' = EmptyMap
            /\ pc' = "idle"
       ELSE /\ pc' = "invalid"
            /\ UNCHANGED <<height, width, bearing, cell_map>>
    /\ UNCHANGED <<nsec, queue, visited, skipped, init_cell, first_seed, lk,
                   walkvars, othervars>>

\* a second call of expand_from_cell, after the first returned or raised
Reexpand(seed) ==
    /\ pc \in {"done", "raised"}
    /\ first_seed = NoCell
    /\ first_seed' = init_cell
    /\ ExpandBegin(seed)

\* the Grid is read between its construction and the second expansion, when
\* no expansion is running
Readable == pc \in {"idle", "done", "raised"} /\ first_seed = NoCell

\* line 205: self._cell_map[key]
getitem_int(key) ==
    IF key \in DOMAIN cell_map THEN [found |-> TRUE, value |-> cell_map[key]]
    ELSE [found |-> FALSE, value |-> NoGridCell]

\* lines 201-202 and 205: a pair is turned into its key
getitem_tuple(co) == getitem_int(coordinates_to_key(co))

\* grid[key] with an int
GetItemInt(key) ==
    /\ Readable
    /\ lk' = [NoLookup EXCEPT !.op = "int", !.key = key,
                              !.found = getitem_int(key).found,
                              !.value = getitem_int(key).value]
    /\ UNCHANGED <<nsec, gridvars, ctor_args, first_seed, walkvars, othervars>>

\* grid[(i, j)]
GetItemTuple(co) ==
    /\ Readable
    /\ lk' = [NoLookup EXCEPT !.op = "tuple", !.coordinates = co,
                              !.found = getitem_tuple(co).found,
                              !.value = getitem_tuple(co).value]
    /\ UNCHANGED <<nsec, gridvars, ctor_args, first_seed, walkvars, othervars>>

\* grid[key] with any other key, lines 203-204: KeyError
GetItemOther ==
    /\ Readable
    /\ lk' = [NoLookup EXCEPT !.op = "other"]
    /\ UNCHANGED <<nsec, gridvars, ctor_args, first_seed, walkvars, othervars>>

\* iter(grid) and len(grid), lines 207-211
ReadAll ==
    /\ Readable
    /\ lk' = [NoLookup EXCEPT !.op = "iter", !.keys = DOMAIN cell_map,
                              !.len = Cardinality(DOMAIN cell_map)]
    /\ UNCHANGED <<nsec, gridvars, ctor_args, first_seed, walkvars, othervars>>

NextLife ==
    \/ \E h \in -1..MaxDim, w \in -1..MaxDim, b \in Bearings : GridInit(h, w, b)
    \/ \E seed \in CellsOf(nsec, MaxLifeRing) : ExpandStart(seed)
    \/ ExpandStep
    \/ ExpandReturn
    \/ \E seed \in CellsOf(nsec, MaxLifeRing) : Reexpand(seed)
    \/ \E key \in -1..(width * height) : GetItemInt(key)
    \/ \E i \in -1..width, j \in -1..height : GetItemTuple(<<i, j>>)
    \/ GetItemOther
    \/ ReadAll

SpecLife == InitLife /\ [][NextLife]_vars

\* ------------------------------------------------------------------ Point
\* whole degrees around the limits of both ranges
CoordinateSamples ==
    {None, -181, -180, -179, -91, -90, -89, 0, 89, 90, 91, 179, 180, 181}

\* the latitude examined first
validate_wgs84_coordinates_LatFirst(lon, lat) ==
    IF lat = None \/ ~(-90 <= lat /\ lat <= 90) THEN "invalid latitude"
    ELSE IF lon = None \/ ~(-180 <= lon /\ lon <= 180) THEN "invalid longitude"
    ELSE "ok"

\* geometry.py, lines 51-56: the ValueError raised, or "ok" when it returns
validate_wgs84_coordinates(lon, lat) ==
    IF lon = None \/ ~(-180 <= lon /\ lon <= 180) THEN "invalid longitude"
    ELSE IF lat = None \/ ~(-90 <= lat /\ lat <= 90) THEN "invalid latitude"
    ELSE "ok"

\* Point(longitude, latitude) is about to be constructed
InitPoint ==
    /\ nsec = 6
    /\ GridIdle
    /\ WalkerIdle
    /\ FeatIdle
    /\ MoreIdle
    /\ p_lon \in CoordinateSamples
    /\ p_lat \in CoordinateSamples
    /\ p_out = "none"

\* Point.__post_init__, grid.py lines 23-24
PointInit ==
    /\ p_out = "none"
    /\ p_out' = validate_wgs84_coordinates(p_lon, p_lat)
    /\ UNCHANGED <<nsec, gridvars, walkvars, lifevars, p_lon, p_lat, featvars, morevars>>

NextPoint == PointInit

SpecPoint == InitPoint /\ [][NextPoint]_vars

\* --------------------------------------------- overpass.api: get_features
\* The elements are those of an overpy result whose geometries can be built.
\* A node or a way is its id.  A relation is its id with the geometries that
\* RecursedRelation._recurse_geometries and polygonize make of its members:
\* the numbers of points, of lines and of polygons.  A geometry is the
\* sequence of the kinds of its parts.
Shapes == [points : 0..MaxPoints, lines : 0..1, polygons : 0..1]

ElementList(n) == [k \in 1..n |-> [id |-> k]]

RelationList(sh) ==
    [k \in 1..Len(sh) |->
        [id |-> k, points |-> sh[k].points, lines |-> sh[k].lines,
         polygons |-> sh[k].polygons]]

ShapeLists == UNION {[1..n -> Shapes] : n \in 0..MaxElements}

\* NodeFeature.from_element
NodeFeature_from_element(n) == [type |-> "Node", id |-> n.id, geometry |-> <<"Point">>]

\* WayFeature.from_element
WayFeature_from_element(w) == [type |-> "Way", id |-> w.id, geometry |-> <<"LineString">>]

\* RecursedRelation.get_geometry, relation.py lines 125-127:
\* GeometryCollection(point_list + line_list + polygons)
RelationGeometry(r) ==
    [k \in 1..(r.points + r.lines + r.polygons) |->
        IF k <= r.points THEN "Point"
        ELSE IF k <= r.points + r.lines THEN "LineString"
        ELSE "Polygon"]

\* RelationFeature.from_element
RelationFeature_from_element(r) ==
    [type |-> "Relation", id |-> r.id, geometry |-> RelationGeometry(r)]

\* RelationFeature.split_element, relation.py lines 229-238: the geometry is
\* always a GeometryCollection, one feature is made of each of its parts
split_element(r) ==
    LET geometry == RelationGeometry(r)
    IN  [k \in 1..Len(geometry) |->
            [type |-> "Relation", id |-> r.id, geometry |-> <<geometry[k]>>]]

\* itertools.chain.from_iterable
RECURSIVE Chain(_)
Chain(ss) == IF Len(ss) = 0 THEN <<>> ELSE Head(ss) \o Chain(Tail(ss))

\* the relations split whatever split_relations says
RelationFeatures_AlwaysSplit(relations, split_relations) ==
    Chain([k \in 1..Len(relations) |-> split_element(relations[k])])

\* api.py lines 238-252
RelationFeatures(relations, split_relations) ==
    IF split_relations
    THEN Chain([k \in 1..Len(relations) |-> split_element(relations[k])])
    ELSE [k \in 1..Len(relations) |-> RelationFeature_from_element(relations[k])]

\* api.py lines 218-253
get_features(elements, split_relations) ==
    << [k \in 1..Len(elements[1]) |-> NodeFeature_from_element(elements[1][k])],
       [k \in 1..Len(elements[2]) |-> WayFeature_from_element(elements[2][k])],
       RelationFeatures(elements[3], split_relations) >>

\* get_features(elements, split_relations) is about to be called
InitFeat ==
    /\ nsec = 6
    /\ GridIdle
    /\ WalkerIdle
    /\ PointIdle
    /\ MoreIdle
    /\ f_elements \in {<<ElementList(a), ElementList(b), RelationList(sh)>> :
                          a \in 0..MaxElements, b \in 0..MaxElements, sh \in ShapeLists}
    /\ f_split \in BOOLEAN
    /\ f_out = NoFeatures

GetFeatures ==
    /\ ~f_out.returned
    /\ f_out' = [returned |-> TRUE, features |-> get_features(f_elements, f_split)]
    /\ UNCHANGED <<nsec, gridvars, walkvars, lifevars, pointvars, f_elements, f_split, morevars>>

NextFeat == GetFeatures

SpecFeat == InitFeat /\ [][NextFeat]_vars

\* ------------------------------------------ map: _get_geojson_items_bounds
\* An item is what its get_bounds does: it raises KeyError, or it returns
\* ((lat_min, lon_min), (lat_max, lon_max)), four None for an item without
\* coordinates.  Degrees are whole numbers around 0.
LatSamples == {-1, 0, 1}

LonSamples == {0, 1}

GeoJsonItems ==
    {[raises |-> TRUE, bounds |-> NoBounds], [raises |-> FALSE, bounds |-> NoBounds]} \cup
    {[raises |-> FALSE, bounds |-> <<<<q[1], q[2]>>, <<q[3], q[4]>>>>] :
        q \in {r \in LatSamples \X LonSamples \X LatSamples \X LonSamples :
                  r[1] <= r[3] /\ r[2] <= r[4]}}

\* Python's x or y on None and numbers: y when x is None or zero
Or(x, y) == IF x = None \/ x = 0 THEN y ELSE x

Min2(a, b) == IF a <= b THEN a ELSE b

\* the call: the locals are None, the loop has not started
InitBounds ==
    /\ nsec = 6
    /\ GridIdle
    /\ WalkerIdle
    /\ PointIdle
    /\ FeatIdle
    /\ QueryIdle
    /\ TreeIdle
    /\ geojson_items = <<>>
    /\ lat_min = None
    /\ lon_min = None
    /\ lat_max = None
    /\ lon_max = None
    /\ bounds = NoBounds
    /\ b_pc = "loop"

\* one pass of the for loop, lines 125-135, with the next item g
BoundsItem(g) ==
    /\ b_pc = "loop"
    /\ Len(geojson_items) < MaxItems
    /\ geojson_items' = Append(geojson_items, g)
    /\ IF ~g.raises /\ g.bounds[1][1] # None
       THEN /\ lat_min' = Min2(Or(lat_min, g.bounds[1][1]), g.bounds[1][1])
            /\ lon_min' = Min2(Or(lon_min, g.bounds[1][2]), g.bounds[1][2])
            /\ lat_max' = Max2(Or(lat_max, g.bounds[2][1]), g.bounds[2][1])
            /\ lon_max' = Max2(Or(lon_max, g.bounds[2][2]), g.bounds[2][2])
       ELSE UNCHANGED <<lat_min, lon_min, lat_max, lon_max>>
    /\ UNCHANGED <<nsec, gridvars, walkvars, lifevars, pointvars, featvars, queryvars, treevars,
                   bounds, b_pc>>

\* lines 135-136: the items are used up; None is returned as NoBounds
BoundsReturn ==
    /\ b_pc = "loop"
    /\ b_pc' = "returned"
    /\ bounds' = IF lat_min # None THEN <<<<lat_min, lon_min>>, <<lat_max, lon_max>>>>
                 ELSE NoBounds
    /\ UNCHANGED <<nsec, gridvars, walkvars, lifevars, pointvars, featvars, queryvars, treevars,
                   geojson_items, lat_min, lon_min, lat_max, lon_max>>

NextBounds ==
    \/ \E g \in GeoJsonItems : BoundsItem(g)
    \/ BoundsReturn

SpecBounds == InitBounds /\ [][NextBounds]_vars

\* ------------------------------------------- overpass.api: build_union_query
\* A string is the sequence of its characters; "n" stands for any character
\* that is no parenthesis, semicolon or blank.  The arguments other than
\* union_block have their defaults.
Chars == {"(", ")", ";", " ", "n"}

\* the strings of at most n characters
RECURSIVE Strings(_)
Strings(n) ==
    IF n = 0 THEN {<<>>}
    ELSE Strings(n - 1) \cup {Append(s, c) : s \in {t \in Strings(n - 1) : Len(t) = n - 1}, c \in Chars}

\* str.strip(): the blanks at both ends removed
RECURSIVE strip(_)
strip(s) ==
    IF s = <<>> THEN s
    ELSE IF Head(s) = " " THEN strip(Tail(s))
    ELSE IF s[Len(s)] = " " THEN strip(SubSeq(s, 1, Len(s) - 1))
    ELSE s

\* str.startswith
startswith(s, prefix) == Len(s) >= Len(prefix) /\ SubSeq(s, 1, Len(prefix)) = prefix

\* str.endswith
endswith(s, suffix) ==
    Len(s) >= Len(suffix) /\ SubSeq(s, Len(s) - Len(suffix) + 1, Len(s)) = suffix

\* _build_settings(...) with the defaults, and the out statement, as tokens
Settings == <<"[out:json][timeout][maxsize];">>

OutStatement == <<"out geom;">>

\* lines 60-80: the ValueError, or the parts joined with newlines
build_union_query(block) ==
    LET stripped == strip(block)
    IN  IF ~startswith(stripped, <<"(">>) /\ ~endswith(stripped, <<")", ";">>)
        THEN [pc |-> "raised", parts |-> <<>>]
        ELSE [pc |-> "returned", parts |-> <<Settings, stripped, OutStatement>>]

InitQuery ==
    /\ nsec = 6
    /\ GridIdle
    /\ WalkerIdle
    /\ PointIdle
    /\ FeatIdle
    /\ BoundsIdle
    /\ TreeIdle
    /\ union_block \in Strings(MaxLen)
    /\ query = NoQuery

BuildUnionQuery ==
    /\ query.pc = "none"
    /\ query' = build_union_query(union_block)
    /\ UNCHANGED <<nsec, gridvars, walkvars, lifevars, pointvars, featvars, boundsvars,
                   treevars, union_block>>

NextQuery == BuildUnionQuery

SpecQuery == InitQuery /\ [][NextQuery]_vars

\* --------------------------------- overpass.relation: to_dict_tree
\* A relation is a number, self is relation 1, and rel.relations is the
\* sequence t_relations[rel].  The trees are those in which the parent of
\* every relation but self has a smaller number; the sub-relations of a
\* relation are listed by number.
RECURSIVE Ascending(_)
Ascending(S) ==
    IF S = {} THEN <<>>
    ELSE LET x == CHOOSE y \in S : \A z \in S : y <= z
         IN  <<x>> \o Ascending(S \ {x})

RelationTrees ==
    UNION {{[r \in 1..n |-> Ascending({k \in 2..n : p[k] = r})] :
               p \in {f \in [2..n -> 1..n] : \A k \in 2..n : f[k] < k}} :
           n \in 1..MaxNodes}

\* the index left as it is
NextIndex_Same(index) == index

\* line 149: current_index += 1
NextIndex(index) == index + 1

\* lines 148-151, the for loop over rel.relations from its k-th entry on:
\* each child takes the next index, which is appended to the list of the
\* children's indexes, and is put on the left of the queue with it
RECURSIVE ScanChildren(_, _, _)
ScanChildren(children, k, st) ==
    IF k > Len(children) THEN st
    ELSE ScanChildren(children, k + 1,
             CHOOSE r \in {LET index == NextIndex(t.current_index)
                            IN  [current_index |-> index,
                                 rel_children_indexes |-> Append(t.rel_children_indexes, index),
                                 queue |-> <<<<index, children[k]>>>> \o t.queue] :
                               t \in {st}} : TRUE)

\* tree[key] = value on an OrderedDict: a key it holds keeps its place
DictSet(d, key, value) ==
    IF \E k \in 1..Len(d) : d[k][1] = key
    THEN [k \in 1..Len(d) |-> IF d[k][1] = key THEN <<key, value>> ELSE d[k]]
    ELSE Append(d, <<key, value>>)

\* sorted(tree.items(), reverse=True): the items by descending key (the keys
\* of a dict are distinct, so the values are never compared)
RECURSIVE SortedReverse(_)
SortedReverse(d) ==
    CHOOSE r \in
        {IF t = <<>> THEN <<>>
         ELSE LET x == CHOOSE k \in 1..Len(t) : \A z \in 1..Len(t) : t[k][1] >= t[z][1]
              IN  <<t[x]>> \o
                  SortedReverse([k \in 1..(Len(t) - 1) |-> IF k < x THEN t[k] ELSE t[k + 1]]) :
            t \in {d}} : TRUE

\* lines 144-146
InitTree ==
    /\ nsec = 6
    /\ GridIdle
    /\ WalkerIdle
    /\ PointIdle
    /\ FeatIdle
    /\ BoundsIdle
    /\ QueryIdle
    /\ t_relations \in RelationTrees
    /\ t_reverse \in BOOLEAN
    /\ current_index = 0
    /\ t_queue = <<<<0, 1>>>>
    /\ tree = <<>>
    /\ t_pc = "loop"

\* one pass of the while loop, lines 147-152
TreeIteration ==
    /\ t_pc = "loop"
    /\ Len(t_queue) > 0
    /\ LET rel_index == t_queue[Len(t_queue)][1]
           rel == t_queue[Len(t_queue)][2]
       IN  \E st \in {ScanChildren(t_relations[rel], 1,
                         [current_index |-> current_index,
                          rel_children_indexes |-> <<>>,
                          queue |-> SubSeq(t_queue, 1, Len(t_queue) - 1)])} :
               /\ current_index' = st.current_index
               /\ t_queue' = st.queue
               /\ tree' = DictSet(tree, rel_index, <<rel, st.rel_children_indexes>>)
    /\ UNCHANGED <<nsec, gridvars, walkvars, lifevars, pointvars, featvars, boundsvars,
                   queryvars, t_relations, t_reverse, t_pc>>

\* lines 153-155: the queue is empty
TreeReturn ==
    /\ t_pc = "loop"
    /\ Len(t_queue) = 0
    /\ tree' = IF t_reverse THEN SortedReverse(tree) ELSE tree
    /\ t_pc' = "returned"
    /\ UNCHANGED <<nsec, gridvars, walkvars, lifevars, pointvars, featvars, boundsvars,
                   queryvars, t_relations, t_reverse, t_queue, current_index>>

NextTree ==
    \/ TreeIteration
    \/ TreeReturn

SpecTree == InitTree /\ [][NextTree]_vars

\* the while loop and the return are run to their end
SpecTreeFair == SpecTree /\ WF_vars(TreeIteration) /\ WF_vars(TreeReturn)

\* ----------------------------------------------------------------- claims
\* the Cells stored in the Grid's mapping
Stored == {cell_map[k].cell : k \in DOMAIN cell_map}

\* the cells enqueued so far by the running or finished expansion
Enqueued == visited \ skipped

\* the cells within n hex-adjacency hops of the cells of R
RECURSIVE Ball(_, _)
Ball(R, n) ==
    IF n = 0 THEN R ELSE Ball(R \cup UNION {hex_ring(c) : c \in R}, n - 1)

\* the cells of S joined to R by a chain of hex-adjacent cells of S
RECURSIVE Connected(_, _)
Connected(R, S) ==
    LET N == {n \in S \ R : \E c \in R : n \in hex_ring(c)}
    IN  IF N = {} THEN R ELSE Connected(R \cup N, S)

\* a flat lattice without pentagon: a position names one lattice direction
Regular == nsec = 6

\* C1: coordinates_to_key and key_to_coordinates are inverse to each other:
\* key_to_coordinates(coordinates_to_key((i, j))) = (i, j) for every (i, j)
\* within the bounds of the Grid, and
\* coordinates_to_key(key_to_coordinates(k)) = k for every stored key k.
C1_KeyCoordinatesBijection ==
    /\ \A i \in 0..(width - 1), j \in 0..(height - 1) :
           key_to_coordinates(coordinates_to_key(<<i, j>>)) = <<i, j>>
    /\ \A k \in DOMAIN cell_map :
           /\ coordinates_to_key(key_to_coordinates(k)) = k
           /\ key_to_coordinates(k) = cell_map[k].coordinates

C1_Witness ==
    /\ pc = "done"
    /\ width > 1
    /\ height > 1
    /\ width # height
    /\ \E k \in DOMAIN cell_map : cell_map[k].coordinates[1] > 0 /\ cell_map[k].coordinates[2] > 0

\* C2: after a successful expand_from_cell(seed) the entry under key
\* coordinates_to_key((width // 2, height // 2)) holds the seed at
\* coordinates (width // 2, height // 2).
C2_SeedAtCenter ==
    pc = "done" =>
        LET k == coordinates_to_key(<<width \div 2, height \div 2>>)
        IN  /\ k \in DOMAIN cell_map
            /\ cell_map[k].cell = init_cell
            /\ cell_map[k].coordinates = <<width \div 2, height \div 2>>

\* C3: during and after an expansion every stored GridCell has coordinates
\* (i, j) with 0 <= i < width and 0 <= j < height; a cell whose translated
\* coordinates fell outside is neither enqueued nor stored, and an error is
\* raised only for a pentagon that was enqueued.
C3_BoundsContainment ==
    /\ \A k \in DOMAIN cell_map :
           /\ 0 <= cell_map[k].coordinates[1] /\ cell_map[k].coordinates[1] < width
           /\ 0 <= cell_map[k].coordinates[2] /\ cell_map[k].coordinates[2] < height
    /\ \A c \in skipped :
           /\ c \notin Stored
           /\ \A x \in 1..Len(queue) : queue[x][2] # c
    /\ pc = "raised" => \E c \in Enqueued : is_pentagon(c)

C3_Witness ==
    /\ pc = "done"
    /\ skipped # {}
    /\ Cardinality(DOMAIN cell_map) = width * height
    /\ width > 1
    /\ height > 1

\* C4 as stated: an expansion whose seed is a pentagon, or that has a
\* pentagon among the neighbors of a cell it processed, does not return a Grid.
C4_PentagonNeighborFails ==
    pc = "done" =>
        /\ ~is_pentagon(init_cell)
        /\ \A c \in Stored : \A n \in hex_ring(c) : ~is_pentagon(n)

\* C4 amended: an expansion that returns a Grid has enqueued no pentagon
\* (neither its seed nor a neighbor whose translated coordinates lay within
\* the bounds when it was first met), and an expansion that raised has
\* enqueued one.
C4_EnqueuedPentagonFails ==
    /\ pc = "done" => \A c \in Enqueued : ~is_pentagon(c)
    /\ pc = "raised" => \E c \in Enqueued : is_pentagon(c)
    /\ pc = "expanding" => \A c \in Enqueued : is_pentagon(c) => \E x \in 1..Len(queue) : queue[x][2] = c

C4_Witness ==
    /\ pc = "raised"
    /\ ~is_pentagon(init_cell)
    /\ init_cell \in Stored

\* C5: when expand_from_cell has raised PentagonInGrid, none of the GridCells
\* stored before is readable on the Grid: its mapping is empty.
C5_NoPartialGrid == pc = "raised" => DOMAIN cell_map = {}

\* C6: on a regular lattice an expansion never enqueues more than
\* width * height Cells, and a successful one stores exactly width * height
\* GridCells (as many Cells were enqueued, and each was stored once), with
\* distinct Cells, one under every key 0..width*height-1, the seed under the
\* key of the center.
C6_FullRectangle ==
    Regular =>
        /\ Cardinality(Enqueued) <= width * height
        /\ pc = "done" =>
               /\ DOMAIN cell_map = 0..(width * height - 1)
               /\ Cardinality(Stored) = width * height
               /\ Cardinality(Enqueued) = width * height
               /\ cell_map[(width \div 2) + width * (height \div 2)].cell = init_cell

C6_Witness ==
    /\ Regular
    /\ pc = "done"
    /\ width = 5
    /\ height = 5
    /\ Cardinality(DOMAIN cell_map) = 25
    /\ cell_map[12].cell = init_cell

\* C7 as stated: in a 5x5 Grid expanded on a regular lattice every stored
\* cell is within 2 hex-adjacency hops of the seed.
C7_WithinTwoHops ==
    (Regular /\ pc = "done" /\ width = 5 /\ height = 5) =>
        Stored \subseteq Ball({init_cell}, 2)

\* C7 amended: in a 5x5 Grid expanded on a regular lattice every stored cell
\* is within 3 hex-adjacency hops of the seed, and the cells at the four
\* corners (0,0), (4,0), (0,4), (4,4) are 3 hops away.
C7_WithinThreeHops ==
    (Regular /\ pc = "done" /\ width = 5 /\ height = 5) =>
        /\ Stored \subseteq Ball({init_cell}, 3)
        /\ \A k \in {0, 4, 20, 24} : cell_map[k].cell \notin Ball({init_cell}, 2)

C7_Witness ==
    /\ Regular
    /\ pc = "done"
    /\ width = 5
    /\ height = 5
    /\ Cardinality(Stored) = 25

\* C8: after a successful expansion every stored Cell is joined to the seed
\* by a chain of hex-adjacent Cells that are all stored in the Grid.
C8_StoredConnected ==
    pc = "done" => Connected({init_cell} \cap Stored, Stored) = Stored

\* C9: the neighbor map handed to the selector has the keys 0..N-1 (N = 5 for
\* a pentagon, 6 otherwise), its values are the N ring neighbors, each once
\* and with position equal to its key, and the angles
\* (bearing_to(neighbor) - reference bearing) mod 360 increase strictly with
\* the position.
C9_NeighborMapOrdered ==
    w_from # NoCell =>
        LET N == IF is_pentagon(w_from) THEN 5 ELSE 6
        IN  /\ DOMAIN w_map = 0..(N - 1)
            /\ {w_map[p].cell : p \in DOMAIN w_map} = hex_ring(w_from)
            /\ Cardinality(hex_ring(w_from)) = N
            /\ \A p \in DOMAIN w_map :
                   /\ w_map[p].position = p
                   /\ w_map[p].angle = (GeodInv(nsec, w_from, w_map[p].cell) - w_bearing) % 360
            /\ \A p, q \in DOMAIN w_map : p < q => w_map[p].angle < w_map[q].angle

C9_Witness ==
    /\ w_from # NoCell
    /\ is_pentagon(w_from)
    /\ w_bearing # 0
    /\ \E p \in DOMAIN w_map : GeodInv(nsec, w_from, w_map[p].cell) < 0

\* C10: the bearing Cell.get_bearing returns lies in [0, 360), for every
\* neighbor the last neighbor map was built from.
C10_BearingNormalized ==
    w_from # NoCell =>
        \A p \in DOMAIN w_map :
            0 <= get_bearing(w_from, w_map[p].cell) /\ get_bearing(w_from, w_map[p].cell) < 360

\* C11: grid[k] with an integer key and grid[(i, j)] with a pair return the
\* GridCell stored with exactly that key / exactly those coordinates, and fail
\* with KeyError whenever no GridCell with that key / those coordinates is
\* stored, for pairs outside [0, width) x [0, height) too.
C11_LookupExact ==
    /\ lk.op = "int" =>
           IF \E k \in DOMAIN cell_map : cell_map[k].key = lk.key
           THEN lk.found /\ lk.value.key = lk.key /\ lk.value = cell_map[lk.key]
           ELSE ~lk.found
    /\ lk.op = "tuple" =>
           IF \E k \in DOMAIN cell_map : cell_map[k].coordinates = lk.coordinates
           THEN lk.found /\ lk.value.coordinates = lk.coordinates
           ELSE ~lk.found

\* C12: Grid(height, width, bearing) with height <= 0 or width <= 0 raises and
\* creates no Grid; with height > 0 and width > 0 it creates a Grid with an
\* empty mapping, and the height and the width of a Grid stay those it was
\* constructed with through every expansion and read.
C12_Dimensions ==
    /\ pc = "invalid" =>
           /\ ctor_args.height <= 0 \/ ctor_args.width <= 0
           /\ height = 0 /\ width = 0 /\ cell_map = EmptyMap
    /\ pc \notin {"none", "invalid"} =>
           /\ ctor_args.height > 0 /\ ctor_args.width > 0
           /\ height = ctor_args.height /\ width = ctor_args.width
    /\ pc = "idle" => cell_map = EmptyMap

\* Grid(2, 0) has raised
C12_Witness == pc = "invalid" /\ ctor_args.height = 2 /\ ctor_args.width = 0

\* C15: expand_from_cell replaces the whole mapping: once expand_from_cell
\* has been called a second time on a Grid, no entry of the first expansion is
\* left in its mapping (every stored Cell was visited by the second expansion),
\* and when the second expansion returns the mapping is the one of a new Grid
\* of the same height, width and bearing expanded once from the second seed.
C15_ExpandReplaces ==
    first_seed # NoCell =>
        /\ \A k \in DOMAIN cell_map : cell_map[k].cell \in visited
        /\ pc = "done" =>
               /\ FreshExpand(init_cell).pc = "done"
               /\ cell_map = FreshExpand(init_cell).m

\* a second expansion from another seed has returned with several cells
C15_Witness ==
    /\ first_seed # NoCell
    /\ first_seed # init_cell
    /\ pc = "done"
    /\ Cardinality(DOMAIN cell_map) > 1

\* C16: whenever the loop of expand_from_cell takes a cell at coordinates
\* (i, j) off the queue, the neighbor at each position p that had not been
\* visited is given the coordinates (i + di, j + dj) with
\* dj = [+1, 0, -1, -1, 0, +1][p] and di = [0, +1, 0, -1, -1, -1][p] for even
\* j, di = [+1, +1, +1, 0, -1, 0][p] for odd j: it is put on the queue with
\* these coordinates when they lie within the bounds and is skipped otherwise.
C16_ShiftTable ==
    [][(pc = "expanding" /\ Len(queue) > 0 /\ pc' = "expanding") =>
        LET i == queue[Len(queue)][1][1]
            j == queue[Len(queue)][1][2]
            nmap == get_neighbor_map(queue[Len(queue)][2], bearing)
        IN  \A p \in DOMAIN nmap :
                LET dj == <<1, 0, -1, -1, 0, 1>>[p + 1]
                    di == IF j % 2 = 0 THEN <<0, 1, 0, -1, -1, -1>>[p + 1]
                          ELSE <<1, 1, 1, 0, -1, 0>>[p + 1]
                    n == nmap[p].cell
                IN  n \notin visited =>
                        IF 0 <= i + di /\ i + di < width /\ 0 <= j + dj /\ j + dj < height
                        THEN /\ \E k \in 1..Len(queue') : queue'[k] = <<<<i + di, j + dj>>, n>>
                             /\ \A k \in 1..Len(queue') :
                                    queue'[k][2] = n => queue'[k][1] = <<i + di, j + dj>>
                        ELSE /\ n \in skipped'
                             /\ \A k \in 1..Len(queue') : queue'[k][2] # n]_vars

\* cells of an even row and of an odd row have been taken off the queue and
\* neighbors of them wait on the queue
C16_Witness ==
    /\ pc = "expanding"
    /\ Len(queue) > 0
    /\ \E k \in DOMAIN cell_map : cell_map[k].coordinates[2] % 2 = 0
    /\ \E k \in DOMAIN cell_map : cell_map[k].coordinates[2] % 2 = 1

\* C13: at every step of a random walk the position the selector draws lies in
\* 0..4 when the cell the walk stands on is a pentagon and in 0..5 otherwise;
\* it is a key of that cell's neighbor map, so the selector returns the
\* Neighbor at that position and never raises.
C13_RandomPositionInRange ==
    (w_sel = "random" /\ w_calls > 0) =>
        /\ w_out.position \in 0..(IF nsec = 5 /\ w_from = Origin THEN 4 ELSE 5)
        /\ w_out.position \in DOMAIN w_map
        /\ w_map[w_out.position] = w_out
        /\ w_pc # "raised"

\* a random walk has come back to the pentagon and drawn its last position
C13_Witness ==
    /\ w_sel = "random"
    /\ nsec = 5
    /\ w_from = Origin
    /\ w_n >= 2
    /\ w_out.position = 4

\* C14: a walker created with iterations = n >= 0 yields exactly n Neighbors,
\* one per call of the selector, and is exhausted by the next() after the n-th
\* and not before; a walker created with iterations = None is never exhausted:
\* after any number of yields a further next() yields a Neighbor.
C14_WalkerLength ==
    /\ w_pc # "none" => w_calls = w_n
    /\ w_iterations >= 0 =>
           /\ w_n + w_it = w_iterations
           /\ w_pc = "exhausted" => w_n = w_iterations
           /\ (w_pc \in {"created", "yielded"} /\ w_n < w_iterations) =>
                  ENABLED WalkNext /\ ~ENABLED WalkStop
           /\ (w_pc \in {"created", "yielded"} /\ w_n = w_iterations) =>
                  ENABLED WalkStop /\ ~ENABLED WalkNext
    /\ w_iterations = -1 =>
           /\ w_pc \in {"created", "yielded"}
           /\ ~ENABLED WalkStop
           /\ w_n < MaxSteps => ENABLED WalkNext

\* a walker of MaxSteps iterations is exhausted
C14_Witness == w_pc = "exhausted" /\ w_iterations = MaxSteps /\ w_n = MaxSteps

\* the Neighbors of cell c as the expansion obtains them
NeighborsOf(c) ==
    {get_neighbor_map(c, bearing)[p] : p \in DOMAIN get_neighbor_map(c, bearing)}

C17_OneFeaturePerElement ==
    (f_out.returned /\ ~f_split) =>
        /\ \A t \in 1..3 : Len(f_out.features[t]) = Len(f_elements[t])
        /\ \A t \in 1..3 : \A k \in 1..Len(f_elements[t]) :
               /\ f_out.features[t][k].id = f_elements[t][k].id
               /\ f_out.features[t][k].type = <<"Node", "Way", "Relation">>[t]

\* two relations, the first of several geometries, were given unsplit with a
\* node and a way
C17_Witness ==
    /\ f_out.returned
    /\ ~f_split
    /\ Len(f_elements[1]) = 1
    /\ Len(f_elements[2]) = 1
    /\ Len(f_elements[3]) = 2
    /\ f_elements[3][1].points = 2
    /\ f_elements[3][1].polygons = 1

\* C18: get_features with split_relations = True returns between R and 3 * R
\* RelationFeatures for R relations: at least one and at most three for each
\* relation, whatever the points, lines and polygons of its geometry.
C18_SplitOneToThree ==
    (f_out.returned /\ f_split) =>
        /\ Len(f_elements[3]) <= Len(f_out.features[3])
        /\ Len(f_out.features[3]) <= 3 * Len(f_elements[3])
        /\ \A r \in 1..Len(f_elements[3]) :
               Cardinality({k \in 1..Len(f_out.features[3]) :
                               f_out.features[3][k].id = f_elements[3][r].id}) \in 1..3

\* C20: Point(longitude, latitude) is constructed exactly when
\* -180 <= longitude <= 180 and -90 <= latitude <= 90; with any other or a
\* missing longitude it raises for the longitude, whatever the latitude, and
\* with a valid longitude and any other or a missing latitude it raises for
\* the latitude.
C20_PointValidation ==
    p_out # "none" =>
        LET lon_ok == p_lon # None /\ -180 <= p_lon /\ p_lon <= 180
            lat_ok == p_lat # None /\ -90 <= p_lat /\ p_lat <= 90
        IN  /\ p_out = "ok" <=> (lon_ok /\ lat_ok)
            /\ ~lon_ok => p_out = "invalid longitude"
            /\ (lon_ok /\ ~lat_ok) => p_out = "invalid latitude"

\* a Point of longitude 181 and no latitude was refused for its longitude
C20_Witness == p_out = "invalid longitude" /\ p_lon = 181 /\ p_lat = None

\* the Cells on the queue
QueueCells == {queue[k][2] : k \in 1..Len(queue)}

\* the Cells taken off the queue so far
Dequeued == Enqueued \ QueueCells

\* C21: every call of expand_from_cell ends, by returning or by raising for a
\* pentagon; no Cell is put on the queue twice (a Cell put on the queue had
\* not been visited, visited Cells stay visited, the queue holds no Cell
\* twice) or taken off it twice (the Cell taken off was not taken off before
\* and does not stay on the queue), and on a regular lattice at most
\* width * height entries are taken off the queue.
C21_Terminates ==
    /\ [](/\ \A k1, k2 \in 1..Len(queue) : queue[k1][2] = queue[k2][2] => k1 = k2
          /\ QueueCells \subseteq visited
          /\ Regular => Cardinality(Dequeued) <= width * height)
    /\ [][(pc = "expanding" /\ Len(queue) > 0) =>
             /\ visited \subseteq visited'
             /\ \A c \in QueueCells' \ QueueCells : c \notin visited
             /\ queue[Len(queue)][2] \notin Dequeued
             /\ queue[Len(queue)][2] \notin QueueCells']_vars
    /\ (pc = "expanding") ~> (pc \in {"done", "raised"})

\* an expansion has returned after taking every cell of a 3x3 rectangle off
\* the queue
C21_Witness ==
    /\ pc = "done"
    /\ width = 3
    /\ height = 3
    /\ Cardinality(Dequeued) = 9

\* C22: the queue of expand_from_cell is first-in-first-out and keeps the
\* order of siblings: a pass of the loop takes the entry at the right end
\* (the oldest), leaves the other entries in their order at the right of the
\* queue and puts to their left the neighbors of the dequeued cell that had
\* not been visited and are not skipped, so that from right to left (the
\* order in which they will be taken) their positions increase.
C22_FifoSiblingOrder ==
    [][(pc = "expanding" /\ Len(queue) > 0 /\ pc' = "expanding") =>
        LET cell == queue[Len(queue)][2]
            nmap == get_neighbor_map(cell, bearing)
            d == Len(queue') - (Len(queue) - 1)
            PositionOf(c) == CHOOSE p \in DOMAIN nmap : nmap[p].cell = c
        IN  /\ d >= 0
            /\ \A k \in 1..(Len(queue) - 1) : queue'[d + k] = queue[k]
            /\ {queue'[k][2] : k \in 1..d} =
                   {nmap[p].cell : p \in DOMAIN nmap} \ (visited \cup skipped')
            /\ \A k1, k2 \in 1..d :
                   k1 < k2 => PositionOf(queue'[k1][2]) > PositionOf(queue'[k2][2])
            /\ \E k \in DOMAIN cell_map' :
                   /\ cell_map'[k].cell = cell
                   /\ cell_map'[k].coordinates = queue[Len(queue)][1]]_vars

\* three siblings wait on the queue behind older entries
C22_Witness ==
    /\ pc = "expanding"
    /\ Len(queue) >= 5
    /\ \E c \in Stored : Cardinality(QueueCells \cap hex_ring(c)) >= 3
    /\ Cardinality(DOMAIN cell_map) >= 3

\* the hop distances of the cells of S from the cells of F, which are at
\* distance n, along chains of hex-adjacent cells of S that avoid R \ F; -1
\* for a cell no chain reaches
RECURSIVE DistancesFrom(_, _, _, _)
DistancesFrom(F, R, S, n) ==
    LET N == (UNION {hex_ring(y) : y \in F}) \cap (S \ R)
    IN  [c \in F |-> n] @@
        (IF N = {} THEN [c \in S \ R |-> -1] ELSE DistancesFrom(N, R \cup N, S, n + 1))

\* the hop distance of every cell that was given coordinates within the bounds
\* from the seed, through such cells
SeedDistances == DistancesFrom({init_cell}, {init_cell}, Enqueued, 0)

\* C26: expand_from_cell takes the cells off the queue, and stores them, in
\* non-decreasing order of their hop distance from the seed through the cells
\* within the bounds of the Grid: the seed is the first cell taken, no cell on
\* the queue is nearer to the seed than a cell already taken, and the queue is
\* ordered by distance, the nearest cell at the end that is taken next.
C26_BreadthFirstOrder ==
    \E SeedDistance \in {SeedDistances} :
        /\ Dequeued # {} => init_cell \in Dequeued
        /\ \A c \in Enqueued : SeedDistance[c] >= 0
        /\ \A d \in Dequeued, c \in QueueCells : SeedDistance[d] <= SeedDistance[c]
        /\ \A k1, k2 \in 1..Len(queue) :
               k1 < k2 => SeedDistance[queue[k1][2]] >= SeedDistance[queue[k2][2]]

\* cells at distance 2 from the seed have been taken while others wait
C26_Witness ==
    /\ pc = "expanding"
    /\ Len(queue) > 0
    /\ \E d \in Dequeued : SeedDistances[d] = 2
    /\ \E k \in DOMAIN cell_map : cell_map[k].cell # init_cell

\* the <<coordinates, cell>> pairs the expansion has assigned so far within
\* the bounds: those waiting on the queue and those stored
Placed ==
    {queue[k] : k \in 1..Len(queue)} \cup
    {<<cell_map[k].coordinates, cell_map[k].cell>> : k \in DOMAIN cell_map}

\* C27: on a regular lattice without pentagon the coordinates a Cell is stored
\* under do not depend on the neighbor that discovered it: every cell taken
\* off the queue wrote a key of its own (no key is written twice), no two
\* distinct Cells share coordinates, and whenever a stored Cell b holds
\* position p in the ordered neighbor map of a stored Cell a, the coordinates
\* of b are those of a plus the shift-table entry for p and the parity of a's row.
C27_CoordinatesConsistent ==
    Regular =>
        /\ Cardinality(DOMAIN cell_map) = Cardinality(Dequeued)
        /\ \A e1, e2 \in Placed : (e1[1] = e2[1]) <=> (e1[2] = e2[2])
        /\ \A ka, kb \in DOMAIN cell_map :
               LET a == cell_map[ka]
                   b == cell_map[kb]
                   nmap == get_neighbor_map(a.cell, bearing)
               IN  \A p \in DOMAIN nmap :
                       nmap[p].cell = b.cell =>
                           /\ b.coordinates[2] = a.coordinates[2] + <<1, 0, -1, -1, 0, 1>>[p + 1]
                           /\ b.coordinates[1] = a.coordinates[1] +
                                  (IF a.coordinates[2] % 2 = 0
                                   THEN <<0, 1, 0, -1, -1, -1>>[p + 1]
                                   ELSE <<1, 1, 1, 0, -1, 0>>[p + 1])

\* a finished expansion in which a Cell of an odd row and a Cell of an even
\* row have all six neighbors stored
C27_Witness ==
    /\ Regular
    /\ pc = "done"
    /\ \E ka, kb \in DOMAIN cell_map :
           /\ cell_map[ka].coordinates[2] % 2 = 1
           /\ cell_map[kb].coordinates[2] % 2 = 0
           /\ hex_ring(cell_map[ka].cell) \subseteq Stored
           /\ hex_ring(cell_map[kb].cell) \subseteq Stored

\* C25: during and after an expansion every entry stored under a key k of the
\* mapping is a GridCell g with g.key = k and g.coordinates = (i, j) where
\* k = i + width * j; iterating the Grid yields exactly the stored keys and
\* len(grid) is the number of stored GridCells.
C25_StoredEntries ==
    /\ \A k \in DOMAIN cell_map :
           /\ cell_map[k].key = k
           /\ k = cell_map[k].coordinates[1] + width * cell_map[k].coordinates[2]
    /\ lk.op = "iter" =>
           /\ lk.keys = {cell_map[k].key : k \in DOMAIN cell_map}
           /\ lk.keys = DOMAIN cell_map
           /\ lk.len = Cardinality({cell_map[k] : k \in DOMAIN cell_map})

\* a Grid of three columns and two rows was expanded and then iterated
C25_Witness ==
    /\ lk.op = "iter"
    /\ pc = "done"
    /\ width = 3
    /\ height = 2
    /\ lk.len >= 4
    /\ \E k \in lk.keys : cell_map[k].coordinates[1] > 0 /\ cell_map[k].coordinates[2] > 0

\* C23: the k-th Neighbor a walker yields is the value the selector returns
\* for the walker's current cell and that cell's neighbor map ordered relative
\* to the walker's bearing, the current cell being the start cell for k = 1
\* and the cell of the (k-1)-th yielded Neighbor otherwise; a new walker on the
\* same start cell begins at the start cell again, wherever the walker before
\* it has gone.
C23_WalkerSteps ==
    /\ [](w_pc = "created" => (w_cell = w_start /\ w_n = 0 /\ w_calls = 0))
    /\ [][w_calls' = w_calls + 1 =>
            LET current == IF w_n = 0 THEN w_start ELSE w_out.cell
                nmap == get_neighbor_map(current, w_bearing)
            IN  /\ w_from' = current
                /\ w_map' = nmap
                /\ w_out' \in Selector(w_sel, current, nmap)
                /\ w_out'.cell \in hex_ring(current)
                /\ w_cell' = w_out'.cell
                /\ w_n' = w_n + 1]_vars
    /\ [][w_gen' # w_gen =>
            /\ w_cell' = w_start
            /\ w_n' = 0
            /\ w_pc' = "created"]_vars

\* a second walker on the start cell has yielded twice, after the first one
C23_Witness ==
    /\ w_gen = 2
    /\ w_n >= 2
    /\ w_from # w_start
    /\ w_cell # w_start

\* C24: every Neighbor a straight walker yields has position 0 in the neighbor
\* map, ordered relative to the walker's bearing, of the cell it was selected
\* from; on a regular lattice the walk keeps one lattice direction and the
\* k-th yielded cell is exactly k hops from the start, so that no cell, the
\* start cell included, is visited twice.
C24_StraightWalk ==
    /\ []((w_sel = "straight" /\ w_calls > 0) =>
            /\ w_out.position = 0
            /\ 0 \in DOMAIN w_map
            /\ w_map[0] = w_out
            /\ w_out.cell \in hex_ring(w_from)
            /\ \A p \in DOMAIN w_map : w_out.angle <= w_map[p].angle)
    /\ []((Regular /\ w_sel = "straight") =>
            /\ w_cell \in Ball({w_start}, w_n)
            /\ w_n > 0 => w_cell \notin Ball({w_start}, w_n - 1))
    /\ [][(Regular /\ w_sel = "straight" /\ w_n >= 1 /\ w_n' = w_n + 1) =>
            TrueBearing(nsec, w_from', w_cell') = TrueBearing(nsec, w_from, w_cell)]_vars

\* a straight walk on the regular lattice with a bearing other than north has
\* made MaxSteps steps
C24_Witness ==
    /\ Regular
    /\ w_sel = "straight"
    /\ w_bearing = 200
    /\ w_n = MaxSteps
    /\ w_start # Origin

\* the items iterated whose bounds are available
WithBounds == {k \in 1..Len(geojson_items) :
                  ~geojson_items[k].raises /\ geojson_items[k].bounds[1][1] # None}

\* C28: _get_geojson_items_bounds returns ((the least lat_min, the least
\* lon_min), (the greatest lat_max, the greatest lon_max)) over the items
\* whose bounds are available, the items whose get_bounds raises KeyError or
\* reports None being passed over, for bound values that are zero or negative
\* too; it returns nothing only when no item has bounds.
C28_BoundsOfItems ==
    b_pc = "returned" =>
        IF WithBounds = {} THEN bounds = NoBounds
        ELSE /\ bounds # NoBounds
             /\ \A k \in WithBounds :
                    /\ bounds[1][1] <= geojson_items[k].bounds[1][1]
                    /\ bounds[1][2] <= geojson_items[k].bounds[1][2]
                    /\ bounds[2][1] >= geojson_items[k].bounds[2][1]
                    /\ bounds[2][2] >= geojson_items[k].bounds[2][2]
             /\ \E k \in WithBounds : bounds[1][1] = geojson_items[k].bounds[1][1]
             /\ \E k \in WithBounds : bounds[1][2] = geojson_items[k].bounds[1][2]
             /\ \E k \in WithBounds : bounds[2][1] = geojson_items[k].bounds[2][1]
             /\ \E k \in WithBounds : bounds[2][2] = geojson_items[k].bounds[2][2]

\* C29: build_union_query raises ValueError for every union_block that,
\* stripped of the blanks around it, does not both start with "(" and end
\* with ");", and builds a query only for the blocks that do both.
C29_UnionBlockChecked ==
    query.pc # "none" =>
        LET first == CHOOSE k \in 1..(Len(union_block) + 1) :
                         /\ \A x \in 1..(k - 1) : union_block[x] = " "
                         /\ k <= Len(union_block) => union_block[k] # " "
            last == CHOOSE k \in 0..Len(union_block) :
                         /\ \A x \in (k + 1)..Len(union_block) : union_block[x] = " "
                         /\ k >= 1 => union_block[k] # " "
            wellformed == /\ last - first >= 1
                          /\ union_block[first] = "("
                          /\ union_block[last - 1] = ")"
                          /\ union_block[last] = ";"
        IN  /\ query.pc = "raised" <=> ~wellformed
            /\ query.pc = "returned" <=> wellformed

\* the relation whose sub-relation r is, and the depth of r below self
ParentRelation(r) == CHOOSE q \in DOMAIN t_relations :
                         \E k \in 1..Len(t_relations[q]) : t_relations[q][k] = r

RECURSIVE DepthOf(_)
DepthOf(r) == IF r = 1 THEN 0 ELSE 1 + DepthOf(ParentRelation(r))

\* the position in the returned tree of the entry of relation r
EntryOf(r) == CHOOSE k \in 1..Len(tree) : tree[k][2][1] = r

\* the index given to relation r
IndexOf(r) == tree[EntryOf(r)][1]

\* the returned tree is the breadth-first numbering of the relations
TreeIsBreadthFirst ==
    LET n == Cardinality(DOMAIN t_relations)
        children(k) == tree[k][2][2]
    IN  /\ Len(tree) = n
        /\ {tree[k][1] : k \in 1..n} = 0..(n - 1)
        /\ {tree[k][2][1] : k \in 1..n} = DOMAIN t_relations
        /\ IndexOf(1) = 0
        /\ \A k \in 1..n :
               LET rel == tree[k][2][1]
               IN  /\ Len(children(k)) = Len(t_relations[rel])
                   /\ \A x \in 1..Len(children(k)) :
                          /\ children(k)[x] = IndexOf(t_relations[rel][x])
                          /\ children(k)[x] > tree[k][1]
        /\ \A i \in 1..(n - 1) :
               Cardinality({<<k, x>> \in (1..n) \X (1..n) :
                               x <= Len(children(k)) /\ children(k)[x] = i}) = 1
        /\ \A a, b \in DOMAIN t_relations :
               /\ DepthOf(a) < DepthOf(b) => IndexOf(a) < IndexOf(b)
               /\ (a # 1 /\ b # 1 /\ IndexOf(ParentRelation(a)) < IndexOf(ParentRelation(b)))
                      => IndexOf(a) < IndexOf(b)
               /\ (a # 1 /\ b # 1 /\ a < b /\ ParentRelation(a) = ParentRelation(b))
                      => IndexOf(a) < IndexOf(b)
        /\ \A k1, k2 \in 1..n :
               k1 < k2 => IF t_reverse THEN tree[k1][1] > tree[k2][1]
                          ELSE tree[k1][1] < tree[k2][1]

\* C30: to_dict_tree terminates on every finite relation tree and returns one
\* entry per relation of the tree rooted at self, under the distinct indices
\* 0..n-1 given in breadth-first order (self is 0); the children tuple of an
\* entry lists exactly the indices of the direct sub-relations of its
\* relation, every child index is greater than the index of its parent, every
\* index but 0 occurs in exactly one children tuple, and the entries iterate
\* by ascending index, or by descending index when reverse is True.
C30_DictTree ==
    /\ [](t_pc = "returned" => TreeIsBreadthFirst)
    /\ [](t_pc = "loop" =>
            /\ \A k1, k2 \in 1..Len(t_queue) : k1 < k2 => t_queue[k1][1] > t_queue[k2][1]
            /\ \A k \in 1..Len(t_queue) : t_queue[k][1] <= current_index
            /\ Len(tree) + Len(t_queue) = current_index + 1)
    /\ <>(t_pc = "returned")

\* the tree of a relation with five relations on three levels, in which the
\* indices differ from the numbers of the relations, was returned reversed
C30_Witness ==
    /\ t_pc = "returned"
    /\ t_reverse
    /\ Len(tree) = 5
    /\ \E r \in DOMAIN t_relations : DepthOf(r) = 2 /\ IndexOf(r) # r - 1
    /\ tree[1][1] = 4

====
